---------------------------- MODULE Spec2Model ----------------------------
(*
  Holiday rule sets of python-holidays: Hungary, Thailand and the
  US Government Securities market (USGS).

  One holiday object is modelled: its class, its observed flag, the years
  already populated and the date -> name mapping.  A date is its proleptic
  Gregorian ordinal (datetime.date.toordinal), so that timedelta arithmetic
  is integer addition and the weekday is a remainder.  Every _populate
  method is one action; it performs the assignments self[date] = name of the
  method in source order.

  Names are kept as in the source, except that letters outside ASCII are
  written without their diacritics ("Husvet Hetfo" for the Hungarian
  Easter Monday), as module text is ASCII.
*)
EXTENDS Integers, Sequences, FiniteSets, TLC

VARIABLES
    cls,        \* class of the holiday object: "Hungary", "Thailand", "USGS"
    observed,   \* HolidayBase.observed, fixed at construction
    thls,       \* Thailand.thls, the lunisolar calculator built in __init__
    years,      \* years for which _populate has run
    hmap,       \* the mapping date -> name held by the object
    arg,        \* year argument of the most recent _populate call
    log,        \* the assignments made by that call, in order
    again       \* whether that call repeated one already made: a _populate
                \* of a year already populated, a helper call made just before

vars == <<cls, observed, thls, years, hmap, arg, log, again>>

---------------------------------------------------------------------------
(* Bounds of the model *)

\* first year that can be populated
YearLo == 1900

\* last year that can be populated
YearHi == 2060

\* years held together by one object lie within MaxSpan of each other
MaxSpan == 1

\* helper calls are made on raw dates at most this many days from the dates held
ShiftSpan == 2

Years == YearLo..YearHi

---------------------------------------------------------------------------
(* holidays.constants and dateutil weekday constants *)

JAN == 1
FEB == 2
MAR == 3
APR == 4
MAY == 5
JUN == 6
JUL == 7
AUG == 8
SEP == 9
OCT == 10
NOV == 11
DEC == 12

MO == 0
TU == 1
TH == 3
FR == 4
SA == 5
SU == 6

---------------------------------------------------------------------------
(* datetime.date, datetime.timedelta *)

IsLeap(y) == y % 4 = 0 /\ (y % 100 # 0 \/ y % 400 = 0)

DaysBeforeYear(y) ==
    LET p == y - 1 IN p * 365 + (p \div 4) - (p \div 100) + (p \div 400)

DaysBeforeMonth(y, m) ==
    <<0, 31, 59, 90, 120, 151, 181, 212, 243, 273, 304, 334>>[m]
        + (IF m > 2 /\ IsLeap(y) THEN 1 ELSE 0)

\* date(year, month, day), as its ordinal
date(y, m, d) == DaysBeforeYear(y) + DaysBeforeMonth(y, m) + d

\* date.weekday(): Monday is 0, Sunday is 6
weekday(d) == (d + 6) % 7

\* date.isoweekday(): Monday is 1, Sunday is 7
isoweekday(d) == weekday(d) + 1

\* date.year
YearOf(d) ==
    LET g == ((d * 400) \div 146097) + 1 IN
    CHOOSE y \in (g - 1)..(g + 1) :
        date(y, JAN, 1) <= d /\ d <= date(y, DEC, 31)

\* d + timedelta(days=n)
td(d, n) == d + n

---------------------------------------------------------------------------
(* dateutil.relativedelta(weekday=wd(n)) added to a date, dateutil.easter *)

\* d + rd(weekday=wd(n)): for n > 0 the n-th wd on or after d, for n < 0
\* the |n|-th wd on or before d
rd_weekday(d, wd, n) ==
    IF n > 0
    THEN d + ((wd - weekday(d)) % 7) + 7 * (n - 1)
    ELSE d - ((weekday(d) - wd) % 7) - 7 * ((0 - n) - 1)

\* easter(year), western method
easter(y) ==
    LET g == y % 19
        c == y \div 100
        h == (c - (c \div 4) - ((8 * c + 13) \div 25) + 19 * g + 15) % 30
        i == h - (h \div 28) * (1 - (h \div 28) * (29 \div (h + 1))
                                       * ((21 - g) \div 11))
        j == (y + (y \div 4) + i + 2 - c + (c \div 4)) % 7
        p == i - j
        d == 1 + ((p + 27 + ((p + 6) \div 40)) % 31)
        m == 3 + ((p + 26) \div 30)
    IN  date(y, m, d)

---------------------------------------------------------------------------
(* HolidayBase *)

_is_saturday(d) == weekday(d) = SA
_is_sunday(d) == weekday(d) = SU
_is_monday(d) == weekday(d) = MO
_is_friday(d) == weekday(d) = FR
_is_weekend(d) == weekday(d) \in {SA, SU}

\* one assignment self[dt] = name, made by the method via, which was
\* handling the holiday whose own date is raw
H(d, n, v, r) == [dt |-> d, name |-> n, via |-> v, raw |-> r]

\* an assignment written in _populate itself
W(d, n) == H(d, n, "_populate", d)

\* the entries of a special_holidays table, assigned by HolidayBase._populate
RECURSIVE HolidayBase_populate(_, _)
HolidayBase_populate(year, table) ==
    IF table = <<>> THEN <<>>
    ELSE <<H(date(year, Head(table)[1], Head(table)[2]), Head(table)[3],
             "special_holidays",
             date(year, Head(table)[1], Head(table)[2]))>>
         \o HolidayBase_populate(year, Tail(table))

\* variant: an assignment to a date already held appends to its name
SetItem_merge(m, w) ==
    IF w.dt \in DOMAIN m
    THEN (w.dt :> (m[w.dt] \o ", " \o w.name)) @@ m
    ELSE (w.dt :> w.name) @@ m

\* self[dt] = name: the later assignment to a date replaces the earlier one
SetItem(m, w) == (w.dt :> w.name) @@ m

\* the assignments ws made in order on the mapping m
RECURSIVE ApplyWrites(_, _)
ApplyWrites(m, ws) ==
    IF ws = <<>> THEN m ELSE ApplyWrites(SetItem(m, Head(ws)), Tail(ws))

---------------------------------------------------------------------------
(* UnitedStatesGovernmentSecurities *)

\* variant: a Saturday holiday moves to the following Monday
USGS_get_observed_sat_forward(d) ==
    LET wdnum == isoweekday(d) IN
    IF wdnum = 6 THEN rd_weekday(d, MO, 1)
    ELSE IF wdnum = 7 THEN rd_weekday(d, MO, 1)
    ELSE d

USGS_get_observed(d) ==
    LET wdnum == isoweekday(d) IN
    IF wdnum = 6 THEN rd_weekday(d, FR, -1)
    ELSE IF wdnum = 7 THEN rd_weekday(d, MO, 1)
    ELSE d

\* variant: the holiday's own date is kept beside the observed one
USGS_set_observed_date_keep(holiday_date, name) ==
    LET date_obs == USGS_get_observed(holiday_date) IN
    IF date_obs = holiday_date
    THEN <<H(holiday_date, name, "_set_observed_date", holiday_date)>>
    ELSE <<H(holiday_date, name, "_set_observed_date", holiday_date),
           H(date_obs, name \o " (Observed)", "_set_observed_date",
             holiday_date)>>

USGS_set_observed_date(holiday_date, name) ==
    LET date_obs == USGS_get_observed(holiday_date) IN
    IF date_obs = holiday_date
    THEN <<H(holiday_date, name, "_set_observed_date", holiday_date)>>
    ELSE <<H(date_obs, name \o " (Observed)", "_set_observed_date",
             holiday_date)>>

\* variant: New Year's Day on a Saturday is observed like any other holiday
USGS_NewYearsDay_always(year) ==
    USGS_set_observed_date(date(year, JAN, 1), "New Year's Day")

USGS_NewYearsDay(year) ==
    LET nyd == date(year, JAN, 1) IN
    IF ~_is_saturday(nyd)
    THEN USGS_set_observed_date(nyd, "New Year's Day")
    ELSE <<>>

\* variant: Martin Luther King Jr. Day in every year
USGS_MLK_ungated(year) ==
    <<W(rd_weekday(date(year, JAN, 1), MO, 3), "Martin Luther King Jr. Day")>>

USGS_MLK(year) ==
    IF year >= 1986
    THEN <<W(rd_weekday(date(year, JAN, 1), MO, 3),
             "Martin Luther King Jr. Day")>>
    ELSE <<>>

USGS_Washington(year) ==
    IF year < 1971
    THEN USGS_set_observed_date(date(year, FEB, 22), "Washington's Birthday")
    ELSE <<W(rd_weekday(date(year, FEB, 1), MO, 3), "Washington's Birthday")>>

\* variant: Good Friday also when the Employment Situation is released
USGS_GoodFriday_always(year) ==
    <<W(td(easter(year), -2), "Good Friday")>>

USGS_GoodFriday(year) ==
    LET third_friday_after_reference ==
            rd_weekday(td(date(year, MAR, 12), 21), FR, 1)
        good_friday == td(easter(year), -2)
    IN  IF good_friday # third_friday_after_reference
        THEN <<W(good_friday, "Good Friday")>>
        ELSE <<>>

USGS_MemorialDay(year) ==
    IF year < 1971
    THEN USGS_set_observed_date(date(year, MAY, 30), "Memorial Day")
    ELSE <<W(rd_weekday(date(year, MAY, 31), MO, -1), "Memorial Day")>>

USGS_Juneteenth(year) ==
    IF year >= 2021
    THEN USGS_set_observed_date(date(year, JUN, 19),
                                "Juneteenth National Independence Day")
    ELSE <<>>

USGS_IndependenceDay(year) ==
    USGS_set_observed_date(date(year, JUL, 4), "Independence Day")

USGS_LaborDay(year) ==
    <<W(rd_weekday(date(year, SEP, 1), MO, 1), "Labor Day")>>

USGS_ColumbusDay(year) ==
    USGS_set_observed_date(date(year, OCT, 12), "Columbus Day")

\* variant: Veterans Day on a Saturday is observed on the Friday
USGS_VeteransDay_always(year) ==
    USGS_set_observed_date(date(year, NOV, 11), "Veteran's Day")

USGS_VeteransDay(year) ==
    LET vetday == date(year, NOV, 11) IN
    IF ~_is_saturday(vetday)
    THEN USGS_set_observed_date(vetday, "Veteran's Day")
    ELSE <<>>

USGS_Thanksgiving(year) ==
    <<W(rd_weekday(date(year, NOV, 1), TH, 4), "Thanksgiving Day")>>

USGS_Christmas(year) ==
    USGS_set_observed_date(date(year, DEC, 25), "Christmas Day")

\* variant: the market is closed on both days of Hurricane Sandy
USGS_Special_two_days(year) ==
    (IF year = 2012
     THEN <<W(date(year, OCT, 29), "Hurricane Sandy"),
            W(date(year, OCT, 30), "Hurricane Sandy")>>
     ELSE <<>>)
    \o (IF year = 2018
        THEN <<W(date(year, DEC, 5), "Death of George H.W. Bush")>>
        ELSE <<>>)

USGS_Special(year) ==
    (IF year = 2012 THEN <<W(date(year, OCT, 30), "Hurricane Sandy")>>
     ELSE <<>>)
    \o (IF year = 2018
        THEN <<W(date(year, DEC, 5), "Death of George H.W. Bush")>>
        ELSE <<>>)

\* the assignments of UnitedStatesGovernmentSecurities._populate(year)
USGS_populate(year) ==
    USGS_NewYearsDay(year)
    \o USGS_MLK(year)
    \o USGS_Washington(year)
    \o USGS_GoodFriday(year)
    \o USGS_MemorialDay(year)
    \o USGS_Juneteenth(year)
    \o USGS_IndependenceDay(year)
    \o USGS_LaborDay(year)
    \o USGS_ColumbusDay(year)
    \o USGS_VeteransDay(year)
    \o USGS_Thanksgiving(year)
    \o USGS_Christmas(year)
    \o USGS_Special(year)

---------------------------------------------------------------------------
(* Hungary *)

\* _add_with_observed_day_off(date(y, m, d), desc, since, before, after)
\* variant: the Monday before a Tuesday January 1 is added like any other
HU_add_with_observed_day_off_jan1(obs, y, m, d, desc, since, before, after) ==
    LET day == date(y, m, d) IN
    <<H(day, desc, "_add_with_observed_day_off", day)>>
    \o (IF obs /\ since <= y
        THEN IF weekday(day) = TU /\ before
             THEN <<H(day - 1, desc \o " elotti pihenonap",
                      "_add_with_observed_day_off", day)>>
             ELSE IF weekday(day) = TH /\ after
             THEN <<H(day + 1, desc \o " utani pihenonap",
                      "_add_with_observed_day_off", day)>>
             ELSE <<>>
        ELSE <<>>)

HU_add_with_observed_day_off(obs, y, m, d, desc, since, before, after) ==
    LET day == date(y, m, d) IN
    <<H(day, desc, "_add_with_observed_day_off", day)>>
    \o (IF obs /\ since <= y
        THEN IF weekday(day) = TU /\ before /\ ~(m = JAN /\ d = 1)
             THEN <<H(day - 1, desc \o " elotti pihenonap",
                      "_add_with_observed_day_off", day)>>
             ELSE IF weekday(day) = TH /\ after
             THEN <<H(day + 1, desc \o " utani pihenonap",
                      "_add_with_observed_day_off", day)>>
             ELSE <<>>
        ELSE <<>>)

\* variant: the Monday before a Tuesday January 1 is written by the year of
\* that January 1
HU_NewYear_bridged(obs, year) ==
    HU_add_with_observed_day_off(obs, year, JAN, 1, "Ujev", 2014, TRUE, TRUE)
    \o (IF year >= 2014 /\ obs /\ weekday(date(year, JAN, 1)) = TU
        THEN <<W(date(year, JAN, 1) - 1, "Ujev elotti pihenonap")>>
        ELSE <<>>)

HU_NewYear(obs, year) ==
    HU_add_with_observed_day_off(obs, year, JAN, 1, "Ujev", 2014, TRUE, TRUE)
    \o (IF year >= 2014 /\ obs /\ weekday(date(year, DEC, 31)) = MO
        THEN <<W(date(year, DEC, 31), "Ujev elotti pihenonap")>>
        ELSE <<>>)

HU_NationalDayMarch(obs, year) ==
    IF (1945 <= year /\ year <= 1950) \/ 1989 <= year
    THEN HU_add_with_observed_day_off(obs, year, MAR, 15, "Nemzeti unnep",
                                      2010, TRUE, TRUE)
    ELSE <<>>

HU_SovietEra(year) ==
    IF 1950 <= year /\ year <= 1989
    THEN <<W(date(year, MAR, 21), "A Tanacskoztarsasag kikialtasanak unnepe"),
           W(date(year, APR, 4), "A felszabadulas unnepe")>>
         \o (IF year \notin {1956, 1989}
             THEN <<W(date(year, NOV, 7),
                      "A nagy oktoberi szocialista forradalom unnepe")>>
             ELSE <<>>)
    ELSE <<>>

\* variant: Good Friday a holiday one year early
HU_GoodFriday_since2016(year) ==
    IF 2016 <= year
    THEN <<W(rd_weekday(easter(year), FR, -1), "Nagypentek")>>
    ELSE <<>>

HU_GoodFriday(year) ==
    IF 2017 <= year
    THEN <<W(rd_weekday(easter(year), FR, -1), "Nagypentek")>>
    ELSE <<>>

HU_Easter(year) == <<W(easter(year), "Husvet")>>

\* variant: Easter Monday also in 1955
HU_EasterMonday_always(year) ==
    <<W(easter(year) + 1, "Husvet Hetfo")>>

HU_EasterMonday(year) ==
    IF 1955 # year
    THEN <<W(easter(year) + 1, "Husvet Hetfo")>>
    ELSE <<>>

HU_Pentecost(year) == <<W(easter(year) + 49, "Punkosd")>>

HU_PentecostMonday(year) ==
    IF year <= 1952 \/ 1992 <= year
    THEN <<W(easter(year) + 50, "Punkosdhetfo")>>
    ELSE <<>>

HU_WorkersDay(obs, year) ==
    (IF 1946 <= year
     THEN HU_add_with_observed_day_off(obs, year, MAY, 1, "A Munka unnepe",
                                       2010, TRUE, TRUE)
     ELSE <<>>)
    \o (IF 1950 <= year /\ year <= 1953
        THEN <<W(date(year, MAY, 2), "A Munka unnepe")>>
        ELSE <<>>)

HU_StateFoundationDay(obs, year) ==
    IF 1950 <= year /\ year < 1990
    THEN <<W(date(year, AUG, 20), "A kenyer unnepe")>>
    ELSE HU_add_with_observed_day_off(obs, year, AUG, 20,
                                      "Az allamalapitas unnepe",
                                      2010, TRUE, TRUE)

HU_NationalDayOctober(obs, year) ==
    IF 1991 <= year
    THEN HU_add_with_observed_day_off(obs, year, OCT, 23, "Nemzeti unnep",
                                      2010, TRUE, TRUE)
    ELSE <<>>

HU_AllSaints(obs, year) ==
    IF 1999 <= year
    THEN HU_add_with_observed_day_off(obs, year, NOV, 1, "Mindenszentek",
                                      2010, TRUE, TRUE)
    ELSE <<>>

HU_ChristmasEve(obs, year) ==
    IF obs /\ 2010 <= year /\ ~_is_weekend(date(year, DEC, 24))
    THEN <<W(date(year, DEC, 24), "Szenteste")>>
    ELSE <<>>

HU_Christmas(year) == <<W(date(year, DEC, 25), "Karacsony")>>

HU_SecondChristmas(obs, year) ==
    IF 1955 # year
    THEN HU_add_with_observed_day_off(obs, year, DEC, 26,
                                      "Karacsony masnapja",
                                      2013, FALSE, TRUE)
    ELSE <<>>

\* variant: Szilveszter is entered from 2019 only
HU_NewYearsEve_since2019(obs, year) ==
    IF obs /\ 2019 <= year /\ weekday(date(year, DEC, 31)) = MO
    THEN <<W(date(year, DEC, 31), "Szilveszter")>>
    ELSE <<>>

HU_NewYearsEve(obs, year) ==
    IF obs /\ 2014 <= year /\ weekday(date(year, DEC, 31)) = MO
    THEN <<W(date(year, DEC, 31), "Szilveszter")>>
    ELSE <<>>

\* the assignments of Hungary._populate(year)
HU_populate(obs, year) ==
    HU_NewYear(obs, year)
    \o HU_NationalDayMarch(obs, year)
    \o HU_SovietEra(year)
    \o HU_GoodFriday(year)
    \o HU_Easter(year)
    \o HU_EasterMonday(year)
    \o HU_Pentecost(year)
    \o HU_PentecostMonday(year)
    \o HU_WorkersDay(obs, year)
    \o HU_StateFoundationDay(obs, year)
    \o HU_NationalDayOctober(obs, year)
    \o HU_AllSaints(obs, year)
    \o HU_ChristmasEve(obs, year)
    \o HU_Christmas(year)
    \o HU_SecondChristmas(obs, year)
    \o HU_NewYearsEve(obs, year)

---------------------------------------------------------------------------
(* Thailand *)

thai_special_in_lieu_holidays == "Special In Lieu Holiday"
thai_election == "Thai Election Day"
thai_election_in_lieu == "Thai Election Day (in lieu)"
thai_bridge_public_holiday == "Bridge Public Holiday"
rama_ix_golden_jubilee == "HM King Bhumibol Adulyadej's Golden Jubilee"
rama_ix_sixty_accession ==
    "HM King Bhumibol Adulyadej's 60th Anniversary of Accession Event"
thai_military_emergency_lockdown ==
    "Emergency Lockdown (Thai Military Coup d'etat)"
thai_political_emergency_lockdown ==
    "Emergency Lockdown (Thai Political Unrest)"
thai_flood_2011_emergency_lockdown ==
    "Emergency Lockdown (2011 Thailand Floods)"
rama_ix_mourning == "Day of Mourning for HM King Bhumibol Adulyadej"
rama_ix_cremation == "HM King Bhumibol Adulyadej's Royal Cremation Ceremony"
rama_x_coronation_celebrations ==
    "HM King Maha Vajiralongkorn's Coronation Celebrations"
songkran_festival_in_lieu_covid == "Songkran Festival (in lieu)"

\* variant: the lockdown of 2011 entered on Oct 29 instead of Oct 31
TH_special_holidays_2011_oct29 ==
    <<<<MAY, 16, thai_bridge_public_holiday>>,
      <<OCT, 27, thai_flood_2011_emergency_lockdown>>,
      <<OCT, 28, thai_flood_2011_emergency_lockdown>>,
      <<OCT, 29, thai_flood_2011_emergency_lockdown>>>>

\* Thailand.special_holidays[2011]
TH_special_holidays_2011 ==
    <<<<MAY, 16, thai_bridge_public_holiday>>,
      <<OCT, 27, thai_flood_2011_emergency_lockdown>>,
      <<OCT, 28, thai_flood_2011_emergency_lockdown>>,
      <<OCT, 31, thai_flood_2011_emergency_lockdown>>>>

\* Thailand.special_holidays[year], () when the year has no entry
TH_special_holidays(year) ==
    CASE year = 1992 ->
            <<<<MAY, 18, thai_special_in_lieu_holidays>>,
              <<DEC, 7, thai_special_in_lieu_holidays>>>>
      [] year = 1993 ->
            <<<<MAR, 8, thai_special_in_lieu_holidays>>,
              <<MAY, 3, thai_special_in_lieu_holidays>>,
              <<OCT, 25, thai_special_in_lieu_holidays>>,
              <<DEC, 6, thai_special_in_lieu_holidays>>>>
      [] year = 1994 ->
            <<<<JAN, 3, thai_special_in_lieu_holidays>>,
              <<MAY, 2, thai_special_in_lieu_holidays>>,
              <<JUL, 25, thai_special_in_lieu_holidays>>,
              <<OCT, 24, thai_special_in_lieu_holidays>>,
              <<DEC, 12, thai_special_in_lieu_holidays>>>>
      [] year = 1996 ->
            <<<<JUN, 10, rama_ix_golden_jubilee>>>>
      [] year = 1998 ->
            <<<<MAY, 11, thai_special_in_lieu_holidays>>,
              <<DEC, 7, thai_special_in_lieu_holidays>>>>
      [] year = 1999 ->
            <<<<MAY, 3, thai_special_in_lieu_holidays>>,
              <<MAY, 31, thai_special_in_lieu_holidays>>,
              <<OCT, 25, thai_special_in_lieu_holidays>>,
              <<DEC, 6, thai_special_in_lieu_holidays>>>>
      [] year = 2000 ->
            <<<<JAN, 3, thai_special_in_lieu_holidays>>,
              <<FEB, 21, thai_special_in_lieu_holidays>>,
              <<AUG, 14, thai_special_in_lieu_holidays>>,
              <<DEC, 11, thai_special_in_lieu_holidays>>,
              <<DEC, 29, thai_election>>>>
      [] year = 2006 ->
            <<<<APR, 19, thai_election>>,
              <<JUN, 9, rama_ix_sixty_accession>>,
              <<JUN, 12, rama_ix_sixty_accession>>,
              <<JUN, 13, rama_ix_sixty_accession>>,
              <<SEP, 20, thai_military_emergency_lockdown>>>>
      [] year = 2007 ->
            <<<<DEC, 24, thai_election_in_lieu>>>>
      [] year = 2009 ->
            <<<<JAN, 2, thai_bridge_public_holiday>>,
              <<APR, 10, thai_political_emergency_lockdown>>,
              <<APR, 16, thai_political_emergency_lockdown>>,
              <<APR, 17, thai_political_emergency_lockdown>>,
              <<JUL, 6, thai_bridge_public_holiday>>>>
      [] year = 2010 ->
            <<<<MAY, 20, thai_bridge_public_holiday>>,
              <<MAY, 21, thai_bridge_public_holiday>>,
              <<AUG, 13, thai_bridge_public_holiday>>>>
      [] year = 2011 -> TH_special_holidays_2011
      [] year = 2012 ->
            <<<<APR, 9, thai_bridge_public_holiday>>>>
      [] year = 2013 ->
            <<<<DEC, 30, thai_bridge_public_holiday>>>>
      [] year = 2014 ->
            <<<<AUG, 11, thai_bridge_public_holiday>>>>
      [] year = 2015 ->
            <<<<JAN, 2, thai_bridge_public_holiday>>,
              <<MAY, 4, thai_bridge_public_holiday>>>>
      [] year = 2016 ->
            <<<<MAY, 6, thai_bridge_public_holiday>>,
              <<JUL, 18, thai_bridge_public_holiday>>,
              <<OCT, 14, rama_ix_mourning>>>>
      [] year = 2017 ->
            <<<<OCT, 26, rama_ix_cremation>>>>
      [] year = 2019 ->
            <<<<MAY, 6, rama_x_coronation_celebrations>>>>
      [] year = 2020 ->
            <<<<JUL, 27, songkran_festival_in_lieu_covid>>,
              <<SEP, 4, songkran_festival_in_lieu_covid>>,
              <<SEP, 7, songkran_festival_in_lieu_covid>>,
              <<NOV, 19, thai_bridge_public_holiday>>,
              <<NOV, 20, thai_bridge_public_holiday>>,
              <<DEC, 11, thai_bridge_public_holiday>>>>
      [] year = 2021 ->
            <<<<FEB, 12, thai_bridge_public_holiday>>,
              <<APR, 12, thai_bridge_public_holiday>>,
              <<SEP, 24, thai_bridge_public_holiday>>>>
      [] year = 2022 ->
            <<<<JUL, 15, thai_bridge_public_holiday>>,
              <<JUL, 29, thai_bridge_public_holiday>>,
              <<OCT, 14, thai_bridge_public_holiday>>,
              <<DEC, 30, thai_bridge_public_holiday>>>>
      [] year = 2023 ->
            <<<<MAY, 5, thai_bridge_public_holiday>>>>
      [] OTHER -> <<>>

(* _ThaiLuniSolar (holidays.utils).  Each method gives a date of the year,
   or nothing (written 0) outside 1941..2057.  The calculator is a fixed
   function of the year; the value k held in thls selects one such function,
   so that over the values of k every feast falls on every weekday in every
   year.  Buddhist Lent Day is the day after Asarnha Bucha. *)

makha_bucha_date(k, year) ==
    IF 1941 <= year /\ year <= 2057
    THEN date(year, FEB, 10) + k
    ELSE 0

visakha_bucha_date(k, year) ==
    IF 1941 <= year /\ year <= 2057
    THEN date(year, MAY, 20) + ((3 * k) % 7)
    ELSE 0

asarnha_bucha_date(k, year) ==
    IF 1941 <= year /\ year <= 2057
    THEN date(year, JUL, 10) + ((5 * k) % 7)
    ELSE 0

khao_phansa_date(k, year) ==
    IF 1941 <= year /\ year <= 2057
    THEN asarnha_bucha_date(k, year) + 1
    ELSE 0

\* variant: in lieu days in every year from 1995 on
TH_add_with_observed_since1995(obs, year, dt, holiday_name) ==
    <<H(dt, holiday_name, "_add_with_observed", dt)>>
    \o (IF (1961 <= year /\ year <= 1973) \/ year >= 1995
        THEN IF obs /\ _is_weekend(dt)
             THEN <<H(td(dt, IF _is_saturday(dt) THEN 2 ELSE 1),
                      holiday_name \o " (in lieu)",
                      "_add_with_observed", dt)>>
             ELSE <<>>
        ELSE <<>>)

\* _add_with_observed(dt, holiday_name), nested in _populate(year)
\* variant: the in lieu day is always the day after the holiday
TH_add_with_observed_nextday(obs, year, dt, holiday_name) ==
    <<H(dt, holiday_name, "_add_with_observed", dt)>>
    \o (IF (1961 <= year /\ year <= 1973) \/ (1995 <= year /\ year <= 1997)
           \/ year >= 2001
        THEN IF obs /\ _is_weekend(dt)
             THEN <<H(td(dt, 1), holiday_name \o " (in lieu)",
                      "_add_with_observed", dt)>>
             ELSE <<>>
        ELSE <<>>)

TH_add_with_observed(obs, year, dt, holiday_name) ==
    <<H(dt, holiday_name, "_add_with_observed", dt)>>
    \o (IF (1961 <= year /\ year <= 1973) \/ (1995 <= year /\ year <= 1997)
           \/ year >= 2001
        THEN IF obs /\ _is_weekend(dt)
             THEN <<H(td(dt, IF _is_saturday(dt) THEN 2 ELSE 1),
                      holiday_name \o " (in lieu)",
                      "_add_with_observed", dt)>>
             ELSE <<>>
        ELSE <<>>)

TH_NewYearsDay(obs, year) ==
    TH_add_with_observed(obs, year, date(year, JAN, 1), "New Year's Day")

\* variant: the in lieu day of New Year's Eve follows the helper's eras
TH_NewYearsEveInLieu_helper_eras(obs, year) ==
    IF obs /\ ((1961 <= year /\ year <= 1973)
               \/ (1995 <= year /\ year <= 1997) \/ year >= 2001)
    THEN IF _is_saturday(date(year - 1, DEC, 31))
         THEN <<W(date(year, JAN, 3), "New Year's Eve (in lieu)")>>
         ELSE IF _is_sunday(date(year - 1, DEC, 31))
         THEN <<W(date(year, JAN, 2), "New Year's Eve (in lieu)")>>
         ELSE <<>>
    ELSE <<>>

TH_NewYearsEveInLieu(obs, year) ==
    IF obs /\ ((1995 <= year /\ year <= 1997) \/ year >= 2001)
    THEN IF _is_saturday(date(year - 1, DEC, 31))
         THEN <<W(date(year, JAN, 3), "New Year's Eve (in lieu)")>>
         ELSE IF _is_sunday(date(year - 1, DEC, 31))
         THEN <<W(date(year, JAN, 2), "New Year's Eve (in lieu)")>>
         ELSE <<>>
    ELSE <<>>

TH_Chakri(obs, year) ==
    TH_add_with_observed(obs, year, date(year, APR, 6), "Chakri Memorial Day")

TH_Songkran(obs, year) ==
    IF 1948 <= year /\ year <= 1953
    THEN <<W(date(year, APR, 13), "Songkran Festival"),
           W(date(year, APR, 14), "Songkran Festival"),
           W(date(year, APR, 15), "Songkran Festival")>>
    ELSE IF 1957 <= year /\ year <= 1988
    THEN TH_add_with_observed(obs, year, date(year, APR, 13),
                              "Songkran Festival")
    ELSE IF 1989 <= year /\ year <= 1997
    THEN <<W(date(year, APR, 12), "Songkran Festival"),
           W(date(year, APR, 13), "Songkran Festival"),
           W(date(year, APR, 14), "Songkran Festival")>>
    ELSE IF year >= 1998 /\ year # 2020
    THEN <<W(date(year, APR, 13), "Songkran Festival"),
           W(date(year, APR, 14), "Songkran Festival"),
           W(date(year, APR, 15), "Songkran Festival")>>
    ELSE <<>>

\* variant: a Saturday end of Songkran gets an in lieu day for each day of
\* the weekend
TH_SongkranInLieu_each(obs, year) ==
    IF obs /\ ((1995 <= year /\ year <= 1997) \/ year >= 2001)
    THEN LET dt == IF year >= 2001 THEN date(year, APR, 15)
                   ELSE date(year, APR, 14)
         IN  IF _is_saturday(dt)
             THEN <<W(td(dt, 2), "Songkran Festival (in lieu)"),
                    W(td(dt, 3), "Songkran Festival (in lieu)")>>
             ELSE IF _is_sunday(dt)
             THEN <<W(td(dt, 1), "Songkran Festival (in lieu)")>>
             ELSE IF _is_monday(dt)
             THEN <<W(td(dt, 1), "Songkran Festival (in lieu)")>>
             ELSE <<>>
    ELSE <<>>

\* variant: April 15 is taken as the last Songkran day in every year
TH_SongkranInLieu_apr15(obs, year) ==
    IF obs /\ ((1995 <= year /\ year <= 1997) \/ year >= 2001)
    THEN LET dt == date(year, APR, 15)
         IN  IF _is_saturday(dt)
             THEN <<W(td(dt, 2), "Songkran Festival (in lieu)")>>
             ELSE IF _is_sunday(dt)
             THEN <<W(td(dt, 1), "Songkran Festival (in lieu)")>>
             ELSE IF _is_monday(dt)
             THEN <<W(td(dt, 1), "Songkran Festival (in lieu)")>>
             ELSE <<>>
    ELSE <<>>

TH_SongkranInLieu(obs, year) ==
    IF obs /\ ((1995 <= year /\ year <= 1997) \/ year >= 2001)
    THEN LET dt == IF year >= 2001 THEN date(year, APR, 15)
                   ELSE date(year, APR, 14)
         IN  IF _is_saturday(dt)
             THEN <<W(td(dt, 2), "Songkran Festival (in lieu)")>>
             ELSE IF _is_sunday(dt)
             THEN <<W(td(dt, 1), "Songkran Festival (in lieu)")>>
             ELSE IF _is_monday(dt)
             THEN <<W(td(dt, 1), "Songkran Festival (in lieu)")>>
             ELSE <<>>
    ELSE <<>>

TH_LabourDay(obs, year) ==
    IF year >= 1974
    THEN TH_add_with_observed(obs, year, date(year, MAY, 1),
                              "National Labour Day")
    ELSE <<>>

TH_NationalDay(obs, year) ==
    IF year <= 1959
    THEN TH_add_with_observed(obs, year, date(year, JUN, 24), "National Day")
    ELSE <<>>

TH_CoronationDay(obs, year) ==
    IF 1958 <= year /\ year <= 2016
    THEN TH_add_with_observed(obs, year, date(year, MAY, 5), "Coronation Day")
    ELSE IF year >= 2020
    THEN TH_add_with_observed(obs, year, date(year, MAY, 4), "Coronation Day")
    ELSE <<>>

TH_QueenSuthida(obs, year) ==
    IF year >= 2019
    THEN TH_add_with_observed(obs, year, date(year, JUN, 3),
                              "HM Queen Suthida's Birthday")
    ELSE <<>>

TH_KingVajiralongkorn(obs, year) ==
    IF year >= 2017
    THEN TH_add_with_observed(obs, year, date(year, JUL, 28),
                              "HM King Maha Vajiralongkorn's Birthday")
    ELSE <<>>

TH_QueenSirikit(obs, year) ==
    IF 1976 <= year /\ year <= 2016
    THEN TH_add_with_observed(obs, year, date(year, AUG, 12),
                              "HM Queen Sirikit's Birthday")
    ELSE IF year >= 2017
    THEN TH_add_with_observed(obs, year, date(year, AUG, 12),
                              "HM Queen Sirikit The Queen Mother's Birthday")
    ELSE <<>>

TH_MothersDay(obs, year) ==
    IF 1950 <= year /\ year <= 1957
    THEN TH_add_with_observed(obs, year, date(year, APR, 15),
                              "National Mother's Day")
    ELSE IF year >= 1976
    THEN TH_add_with_observed(obs, year, date(year, AUG, 12),
                              "National Mother's Day")
    ELSE <<>>

TH_BhumibolMemorial(obs, year) ==
    IF year >= 2017
    THEN TH_add_with_observed(obs, year, date(year, OCT, 13),
                              "HM King Bhumibol Adulyadej Memorial Day")
    ELSE <<>>

TH_Chulalongkorn(obs, year) ==
    TH_add_with_observed(obs, year, date(year, OCT, 23),
                         "Chulalongkorn Memorial Day")

TH_BhumibolBirthday(obs, year) ==
    IF year >= 1960
    THEN TH_add_with_observed(obs, year, date(year, DEC, 5),
                              "HM King Bhumibol Adulyadej's Birthday")
    ELSE <<>>

\* variant: National Father's Day starts a year later
TH_FathersDay_since1981(obs, year) ==
    IF year >= 1981
    THEN TH_add_with_observed(obs, year, date(year, DEC, 5),
                              "National Father's Day")
    ELSE <<>>

TH_FathersDay(obs, year) ==
    IF year >= 1980
    THEN TH_add_with_observed(obs, year, date(year, DEC, 5),
                              "National Father's Day")
    ELSE <<>>

TH_ConstitutionDay(obs, year) ==
    TH_add_with_observed(obs, year, date(year, DEC, 10), "Constitution Day")

TH_NewYearsEve(year) == <<W(date(year, DEC, 31), "New Year's Eve")>>

TH_MakhaBucha(obs, k, year) ==
    LET makha == makha_bucha_date(k, year) IN
    IF makha # 0
    THEN TH_add_with_observed(obs, year, makha, "Makha Bucha")
    ELSE <<>>

TH_VisakhaBucha(obs, k, year) ==
    LET visakha == visakha_bucha_date(k, year) IN
    IF visakha # 0
    THEN TH_add_with_observed(obs, year, visakha, "Visakha Bucha")
    ELSE <<>>

TH_AsarnhaBucha(k, year) ==
    LET asarnha == asarnha_bucha_date(k, year) IN
    IF asarnha # 0 THEN <<W(asarnha, "Asarnha Bucha")>> ELSE <<>>

TH_KhaoPhansa(k, year) ==
    LET khao_phansa == khao_phansa_date(k, year) IN
    IF khao_phansa # 0 THEN <<W(khao_phansa, "Buddhist Lent Day")>> ELSE <<>>

\* variant: the in lieu day is placed as _add_with_observed places it
TH_AsarnhaInLieu_helper(obs, k, year) ==
    LET asarnha == asarnha_bucha_date(k, year) IN
    IF asarnha # 0 /\ obs
       /\ ((1961 <= year /\ year <= 1973) \/ (1995 <= year /\ year <= 1997)
           \/ year >= 2001)
    THEN IF _is_friday(asarnha)
         THEN <<W(td(asarnha, 3), "Buddhist Lent Day (in lieu)")>>
         ELSE IF _is_weekend(asarnha)
         THEN <<W(td(asarnha, IF _is_saturday(asarnha) THEN 2 ELSE 1),
                  "Asarnha Bucha (in lieu)")>>
         ELSE <<>>
    ELSE <<>>

TH_AsarnhaInLieu(obs, k, year) ==
    LET asarnha == asarnha_bucha_date(k, year) IN
    IF asarnha # 0 /\ obs
       /\ ((1961 <= year /\ year <= 1973) \/ (1995 <= year /\ year <= 1997)
           \/ year >= 2001)
    THEN IF _is_friday(asarnha)
         THEN <<W(td(asarnha, 3), "Buddhist Lent Day (in lieu)")>>
         ELSE IF _is_weekend(asarnha)
         THEN <<W(td(asarnha, 2), "Asarnha Bucha (in lieu)")>>
         ELSE <<>>
    ELSE <<>>

\* raeknakhwan_dates[year] as <<month, day>>, <<>> when the year is no key
raeknakhwan_dates(year) ==
    CASE year \in {1997, 1998, 2011, 2013, 2015, 2021} -> <<MAY, 13>>
      [] year = 2000 -> <<MAY, 15>>
      [] year = 2001 -> <<MAY, 16>>
      [] year \in {2002, 2008, 2012, 2014, 2016, 2019} -> <<MAY, 9>>
      [] year = 2003 -> <<MAY, 8>>
      [] year = 2004 -> <<MAY, 7>>
      [] year \in {2005, 2006, 2009, 2020, 2023} -> <<MAY, 11>>
      [] year \in {2007, 2010} -> <<MAY, 10>>
      [] year = 2017 -> <<MAY, 12>>
      [] year = 2018 -> <<MAY, 14>>
      [] year = 2022 -> <<MAY, 17>>
      [] OTHER -> <<>>

\* variant: the May 13 approximation applied up to 2013
TH_RoyalPloughing_until2013(obs, year) ==
    IF raeknakhwan_dates(year) # <<>>
    THEN TH_add_with_observed(obs, year,
             date(year, raeknakhwan_dates(year)[1], raeknakhwan_dates(year)[2]),
             "Royal Ploughing Ceremony")
    ELSE IF 1957 <= year /\ year <= 2013
    THEN TH_add_with_observed(obs, year, date(year, MAY, 13),
                              "Royal Ploughing Ceremony")
    ELSE <<>>

TH_RoyalPloughing(obs, year) ==
    IF raeknakhwan_dates(year) # <<>>
    THEN TH_add_with_observed(obs, year,
             date(year, raeknakhwan_dates(year)[1], raeknakhwan_dates(year)[2]),
             "Royal Ploughing Ceremony")
    ELSE IF 1957 <= year /\ year <= 1996
    THEN TH_add_with_observed(obs, year, date(year, MAY, 13),
                              "Royal Ploughing Ceremony")
    ELSE <<>>

\* the assignments of the rules of Thailand._populate(year), that is all
\* but those of the special_holidays table
TH_rules(obs, k, year) ==
    TH_NewYearsDay(obs, year)
    \o TH_NewYearsEveInLieu(obs, year)
    \o TH_Chakri(obs, year)
    \o TH_Songkran(obs, year)
    \o TH_SongkranInLieu(obs, year)
    \o TH_LabourDay(obs, year)
    \o TH_NationalDay(obs, year)
    \o TH_CoronationDay(obs, year)
    \o TH_QueenSuthida(obs, year)
    \o TH_KingVajiralongkorn(obs, year)
    \o TH_QueenSirikit(obs, year)
    \o TH_MothersDay(obs, year)
    \o TH_BhumibolMemorial(obs, year)
    \o TH_Chulalongkorn(obs, year)
    \o TH_BhumibolBirthday(obs, year)
    \o TH_FathersDay(obs, year)
    \o TH_ConstitutionDay(obs, year)
    \o TH_NewYearsEve(year)
    \o TH_MakhaBucha(obs, k, year)
    \o TH_VisakhaBucha(obs, k, year)
    \o TH_AsarnhaBucha(k, year)
    \o TH_KhaoPhansa(k, year)
    \o TH_AsarnhaInLieu(obs, k, year)
    \o TH_RoyalPloughing(obs, year)

\* variant: years up to 1940 are populated like the others
TH_populate_uncapped(obs, k, year) ==
    HolidayBase_populate(year, TH_special_holidays(year))
    \o TH_rules(obs, k, year)

\* the assignments of Thailand._populate(year)
TH_populate(obs, k, year) ==
    IF year <= 1940 THEN <<>>
    ELSE HolidayBase_populate(year, TH_special_holidays(year))
         \o TH_rules(obs, k, year)

---------------------------------------------------------------------------
(* The state machine *)

Classes == {"Hungary", "Thailand", "USGS"}

\* the lunisolar calculators an object may hold
Calculators == 0..6

Init ==
    /\ cls \in Classes
    /\ observed \in BOOLEAN
    /\ thls \in (IF cls = "Thailand" THEN Calculators ELSE {0})
    /\ years = {}
    /\ hmap = <<>>
    /\ arg = 0
    /\ log = <<>>
    /\ again = FALSE

\* a year may join the populated ones when it is within MaxSpan of them all
InSpan(y) == \A z \in years : y - z <= MaxSpan /\ z - y <= MaxSpan

Populate(y, ws) ==
    /\ InSpan(y)
    /\ years' = years \cup {y}
    /\ hmap' = ApplyWrites(hmap, ws)
    /\ arg' = y
    /\ log' = ws
    /\ again' = (y \in years)
    /\ UNCHANGED <<cls, observed, thls>>

PopulateUSGS(y) ==
    /\ cls = "USGS"
    /\ Populate(y, USGS_populate(y))

PopulateHungary(y) ==
    /\ cls = "Hungary"
    /\ Populate(y, HU_populate(observed, y))

PopulateThailand(y) ==
    /\ cls = "Thailand"
    /\ Populate(y, TH_populate(observed, thls, y))

Next ==
    \E y \in Years :
        \/ PopulateHungary(y)
        \/ PopulateThailand(y)
        \/ PopulateUSGS(y)

Spec == Init /\ [][Next]_vars

---------------------------------------------------------------------------
(* The shift helpers on their own: each step is one call of the class's
   helper, with a raw date and a label, on the mapping as it stands *)

\* years of the raw dates, one or more in each era of the helpers
ShiftYears == {1961, 1974, 2012, 2014}

\* raw dates: the first seven days of March of those years
ShiftDays == {date(y, MAR, d) : y \in ShiftYears, d \in 1..7}

ShiftLabels == {"A", "B"}

\* values of the helper's since parameter: the default and that of January 1
ShiftSince == {2010, 2014}

\* a call is made on a date within ShiftSpan days of every date held
InShiftSpan(r) == \A d \in DOMAIN hmap : r - d <= ShiftSpan /\ d - r <= ShiftSpan

Shift(r, ws) ==
    /\ InShiftSpan(r)
    /\ hmap' = ApplyWrites(hmap, ws)
    /\ arg' = YearOf(r)
    /\ log' = ws
    /\ again' = (ws = log)
    /\ UNCHANGED <<cls, observed, thls, years>>

ShiftUSGS(r, n) ==
    /\ cls = "USGS"
    /\ Shift(r, USGS_set_observed_date(r, n))

ShiftHungary(r, n, since, before, after) ==
    /\ cls = "Hungary"
    /\ Shift(r, HU_add_with_observed_day_off(observed, YearOf(r),
                    MAR, r - date(YearOf(r), MAR, 1) + 1, n,
                    since, before, after))

ShiftThailand(r, n) ==
    /\ cls = "Thailand"
    /\ Shift(r, TH_add_with_observed(observed, YearOf(r), r, n))

NextShift ==
    \E r \in ShiftDays, n \in ShiftLabels :
        \/ ShiftUSGS(r, n)
        \/ ShiftThailand(r, n)
        \/ \E since \in ShiftSince, before \in BOOLEAN,
              after \in BOOLEAN :
               ShiftHungary(r, n, since, before, after)

SpecShift == Init /\ [][NextShift]_vars

---------------------------------------------------------------------------
(* Notions used to state the properties *)

Held == DOMAIN hmap

\* the dates of year y held by the object
HeldIn(y) == {d \in Held : date(y, JAN, 1) <= d /\ d <= date(y, DEC, 31)}

\* the dates of year y held under one of the names ns
DatesNamed(y, ns) == {d \in HeldIn(y) : hmap[d] \in ns}

\* date d is held under name n
Has(d, n) == d \in Held /\ hmap[d] = n

\* the weekday wd among the seven days from..from+6
WeekdayFrom(from, wd) == CHOOSE d \in from..(from + 6) : weekday(d) = wd

\* string s ends with suf
EndsWith(s, suf) ==
    Len(s) >= Len(suf) /\ SubSeq(s, Len(s) - Len(suf) + 1, Len(s)) = suf

\* the date a Saturday/Sunday holiday moves to: Friday before, Monday after
NearestWorkday(d) ==
    IF weekday(d) = SA THEN d - 1 ELSE IF weekday(d) = SU THEN d + 1 ELSE d

---------------------------------------------------------------------------
(* USGS *)

\* C1: USGS New Year's Day. For every populated year Y: if Jan 1 of Y is a
\* Saturday, neither Dec 31 of Y-1 nor Jan 1 of Y is held and year Y has no
\* New Year's Day entry; if it is a Sunday, Jan 2 is held as "New Year's Day
\* (Observed)" and Jan 1 is not held; otherwise Jan 1 is held as "New
\* Year's Day".
C1_NewYearsDay ==
    cls = "USGS" =>
        \A y \in years :
            LET nyd == date(y, JAN, 1) IN
            /\ weekday(nyd) = SA =>
                   /\ date(y - 1, DEC, 31) \notin Held
                   /\ nyd \notin Held
                   /\ DatesNamed(y, {"New Year's Day",
                                     "New Year's Day (Observed)"}) = {}
            /\ weekday(nyd) = SU =>
                   /\ Has(date(y, JAN, 2), "New Year's Day (Observed)")
                   /\ nyd \notin Held
            /\ weekday(nyd) \notin {SA, SU} => Has(nyd, "New Year's Day")

\* 2011-01-01 is a Saturday: 2010 and 2011 are populated, 2011 has an entry
\* and 2011-01-01 has none
C1_Witness ==
    /\ cls = "USGS" /\ {2010, 2011} \subseteq years
    /\ weekday(date(2011, JAN, 1)) = SA
    /\ HeldIn(2011) # {} /\ date(2011, JAN, 1) \notin Held

\* C2: USGS Good Friday. For every populated year Y, easter(Y) - 2 days is
\* held as "Good Friday" if and only if it is not the first Friday on or
\* after April 2 of Y; in the excluded years no entry of the year is named
\* "Good Friday" (1999, 2010, 2021, 2023 excluded; 2000, 2018, 2019, 2020,
\* 2022 included).
C2_GoodFriday ==
    cls = "USGS" =>
        \A y \in years :
            LET gf == easter(y) - 2
                release == WeekdayFrom(date(y, APR, 2), FR)
            IN  /\ Has(gf, "Good Friday") <=> gf # release
                /\ gf = release => DatesNamed(y, {"Good Friday"}) = {}
                /\ y \in {1999, 2010, 2021, 2023} =>
                       DatesNamed(y, {"Good Friday"}) = {}
                /\ y \in {2000, 2018, 2019, 2020, 2022} =>
                       DatesNamed(y, {"Good Friday"}) = {gf}

\* 2023: Good Friday is April 7, the release Friday, and is not held
C2_Witness ==
    /\ cls = "USGS" /\ 2023 \in years
    /\ easter(2023) - 2 = date(2023, APR, 7)
    /\ date(2023, APR, 7) \notin Held /\ HeldIn(2023) # {}

\* C3: USGS 1971 switch. For every populated year before 1971, Washington's
\* Birthday (Feb 22) and Memorial Day (May 30) are each held on exactly one
\* date: the raw date if a weekday, the Friday before if a Saturday, the
\* Monday after if a Sunday (1970-02-23, 1930-02-21, 1965-05-31); from 1971
\* on they are the third Monday of February and the last Monday of May.
C3_Switch1971 ==
    cls = "USGS" =>
        \A y \in years :
            LET wash == {"Washington's Birthday",
                         "Washington's Birthday (Observed)"}
                mem == {"Memorial Day", "Memorial Day (Observed)"}
            IN  /\ y < 1971 =>
                    /\ DatesNamed(y, wash)
                           = {NearestWorkday(date(y, FEB, 22))}
                    /\ DatesNamed(y, mem)
                           = {NearestWorkday(date(y, MAY, 30))}
                /\ y >= 1971 =>
                    /\ DatesNamed(y, wash)
                           = {WeekdayFrom(date(y, FEB, 15), MO)}
                    /\ DatesNamed(y, mem)
                           = {WeekdayFrom(date(y, MAY, 25), MO)}
                /\ y = 1970 => date(1970, FEB, 23) \in DatesNamed(y, wash)
                /\ y = 1930 => date(1930, FEB, 21) \in DatesNamed(y, wash)
                /\ y = 1965 => date(1965, MAY, 31) \in DatesNamed(y, mem)

\* both sides of the switch: 1970 (Feb 22 a Sunday, held on Feb 23) and 1971
C3_Witness ==
    /\ cls = "USGS" /\ {1970, 1971} \subseteq years
    /\ Has(date(1970, FEB, 23), "Washington's Birthday (Observed)")
    /\ Has(date(1971, FEB, 15), "Washington's Birthday")

\* C4: USGS Veterans Day. For every populated year: if Nov 11 is a Saturday
\* neither Nov 10 nor Nov 11 is held; if it is a Sunday Nov 12 is held and
\* Nov 11 is not; otherwise Nov 11 is held.
C4_VeteransDay ==
    cls = "USGS" =>
        \A y \in years :
            LET vetday == date(y, NOV, 11) IN
            /\ weekday(vetday) = SA =>
                   vetday - 1 \notin Held /\ vetday \notin Held
            /\ weekday(vetday) = SU =>
                   vetday + 1 \in Held /\ vetday \notin Held
            /\ weekday(vetday) \notin {SA, SU} => vetday \in Held

\* 2023-11-11 is a Saturday: the year is populated without it
C4_Witness ==
    /\ cls = "USGS" /\ 2023 \in years
    /\ weekday(date(2023, NOV, 11)) = SA
    /\ HeldIn(2023) # {} /\ date(2023, NOV, 11) \notin Held

\* C5: USGS era gating. A populated year holds a Martin Luther King Jr. Day
\* entry, on the third Monday of January, if and only if the year is >=
\* 1986, and a Juneteenth entry, on June 19 moved to the Friday before a
\* Saturday or the Monday after a Sunday, if and only if the year is >=
\* 2021; in earlier years those dates are not held (1985-01-21, 1954-06-18,
\* 1967-06-19).
C5_EraGating ==
    cls = "USGS" =>
        \A y \in years :
            LET mlk == WeekdayFrom(date(y, JAN, 15), MO)
                jun == NearestWorkday(date(y, JUN, 19))
                juneteenth == {"Juneteenth National Independence Day",
                    "Juneteenth National Independence Day (Observed)"}
            IN  /\ DatesNamed(y, {"Martin Luther King Jr. Day"}) # {}
                       <=> y >= 1986
                /\ y >= 1986 => Has(mlk, "Martin Luther King Jr. Day")
                /\ y < 1986 => mlk \notin Held
                /\ DatesNamed(y, juneteenth) # {} <=> y >= 2021
                /\ y >= 2021 => DatesNamed(y, juneteenth) = {jun}
                /\ y < 2021 => jun \notin Held
                /\ y = 1985 => date(1985, JAN, 21) \notin Held
                /\ y = 1954 => date(1954, JUN, 18) \notin Held
                /\ y = 1967 => date(1967, JUN, 19) \notin Held

\* both sides of the Martin Luther King Jr. Day gate are populated
C5_Witness ==
    /\ cls = "USGS" /\ {1985, 1986} \subseteq years
    /\ date(1985, JAN, 21) \notin Held
    /\ Has(date(1986, JAN, 20), "Martin Luther King Jr. Day")

---------------------------------------------------------------------------
(* Hungary *)

\* C6 as stated: no populated year before 2017 has an entry named
\* "Nagypentek", and every populated year from 2017 on holds "Nagypentek" at
\* easter(year) - 1 day.
C6_GoodFriday_AsStated ==
    cls = "Hungary" =>
        \A y \in years :
            /\ y < 2017 => DatesNamed(y, {"Nagypentek"}) = {}
            /\ y >= 2017 => Has(easter(y) - 1, "Nagypentek")

\* C6, amended: no populated year before 2017 has an entry named
\* "Nagypentek", and every populated year from 2017 on holds "Nagypentek" at
\* easter(year) - 2 days, the Friday before Easter Sunday, and nowhere else.
C6_GoodFriday ==
    cls = "Hungary" =>
        \A y \in years :
            /\ y < 2017 => DatesNamed(y, {"Nagypentek"}) = {}
            /\ y >= 2017 =>
                   /\ Has(easter(y) - 2, "Nagypentek")
                   /\ weekday(easter(y) - 2) = FR
                   /\ DatesNamed(y, {"Nagypentek"}) = {easter(y) - 2}

\* both sides of the gate are populated: 2016 without, 2017 with Good Friday
C6_Witness ==
    /\ cls = "Hungary" /\ {2016, 2017} \subseteq years
    /\ DatesNamed(2016, {"Nagypentek"}) = {}
    /\ Has(date(2017, APR, 14), "Nagypentek")

\* C7: Hungary 1955. Year 1955, when populated, has no entry named "Husvet
\* Hetfo" and none named "Karacsony masnapja"; every other populated year
\* (1956 in particular) holds "Husvet Hetfo" on easter(year) + 1 day and
\* "Karacsony masnapja" on Dec 26.
C7_Exclusions1955 ==
    cls = "Hungary" =>
        \A y \in years :
            /\ y = 1955 =>
                   DatesNamed(y, {"Husvet Hetfo", "Karacsony masnapja"}) = {}
            /\ y # 1955 =>
                   /\ Has(easter(y) + 1, "Husvet Hetfo")
                   /\ Has(date(y, DEC, 26), "Karacsony masnapja")

\* 1955 and 1956 are populated; Easter Monday 1956 is held, that of 1955
\* (April 11) is not, though Easter Sunday 1955 is
C7_Witness ==
    /\ cls = "Hungary" /\ {1955, 1956} \subseteq years
    /\ Has(easter(1955), "Husvet")
    /\ easter(1955) + 1 \notin Held
    /\ Has(date(1956, APR, 2), "Husvet Hetfo")

---------------------------------------------------------------------------
(* Thailand *)

\* the years of the automatic in lieu policy
InLieuEra(y) == y \in 1961..1973 \/ y \in 1995..1997 \/ y >= 2001

\* a name of the form "<name> (in lieu)"
IsInLieu(n) == EndsWith(n, " (in lieu)")

\* C8: Thailand 2011. Once 2011 is populated, whatever the observed flag,
\* the dates held under the 2011 flood lockdown name are exactly Oct 27,
\* Oct 28 and Oct 31; every entry the rules of _populate derive for 2011 is
\* held too; 2011-10-29 is not held.
C8_Special2011 ==
    (cls = "Thailand" /\ 2011 \in years) =>
        /\ {d \in Held : hmap[d] = thai_flood_2011_emergency_lockdown}
               = {date(2011, OCT, 27), date(2011, OCT, 28),
                  date(2011, OCT, 31)}
        /\ date(2011, OCT, 29) \notin Held
        /\ LET rules == TH_rules(observed, thls, 2011) IN
           \A i \in DOMAIN rules :
               /\ rules[i].dt \in Held
               /\ (\A j \in DOMAIN rules :
                       j > i => rules[j].dt # rules[i].dt)
                  => hmap[rules[i].dt] = rules[i].name

\* 2011 is populated with observed off: the lockdown days are held next to
\* the entries of the rules
C8_Witness ==
    /\ cls = "Thailand" /\ 2011 \in years /\ ~observed
    /\ Has(date(2011, OCT, 31), thai_flood_2011_emergency_lockdown)
    /\ Has(date(2011, OCT, 23), "Chulalongkorn Memorial Day")

\* C9 as stated: with observed off, a USGS holiday whose date falls on a
\* Saturday or Sunday is not moved and no entry named "... (Observed)" is
\* produced.
C9_ObservedFlag_AsStated ==
    (cls = "USGS" /\ ~observed) =>
        /\ \A i \in DOMAIN log :
               /\ log[i].dt = log[i].raw
               /\ ~EndsWith(log[i].name, " (Observed)")
        /\ \A d \in Held : ~EndsWith(hmap[d], " (Observed)")

\* C10: Thailand in lieu eras. _add_with_observed adds "<name> (in lieu)"
\* only when observed is on and the year is in 1961..1973, 1995..1997 or >=
\* 2001; in those years, with observed on, a holiday it is given that falls
\* on a Saturday or Sunday keeps its date and the Monday after is held too;
\* in the other years no assignment of _populate other than those of the
\* special_holidays table has a name "... (in lieu)".
C10_InLieuEras ==
    cls = "Thailand" =>
        /\ \A i \in DOMAIN log :
               LET w == log[i] IN
               /\ (w.via = "_add_with_observed" /\ w.dt # w.raw) =>
                      /\ observed /\ InLieuEra(arg)
                      /\ IsInLieu(w.name)
               /\ (w.via # "special_holidays" /\ IsInLieu(w.name)) =>
                      observed /\ InLieuEra(arg)
               /\ (w.via = "_add_with_observed" /\ w.dt = w.raw
                   /\ observed /\ InLieuEra(arg)
                   /\ weekday(w.raw) \in {SA, SU}) =>
                      /\ w.raw \in Held
                      /\ WeekdayFrom(w.raw + 1, MO) \in Held
                      /\ i < Len(log)
                      /\ log[i + 1].dt = WeekdayFrom(w.raw + 1, MO)
                      /\ log[i + 1].name = w.name \o " (in lieu)"
        /\ \A d \in Held :
               IsInLieu(hmap[d]) =>
                   \/ observed /\ InLieuEra(YearOf(d))
                   \/ \E e \in DOMAIN TH_special_holidays(YearOf(d)) :
                          LET row == TH_special_holidays(YearOf(d))[e] IN
                          /\ date(YearOf(d), row[1], row[2]) = d
                          /\ row[3] = hmap[d]

\* 2011 has just been populated with observed on: Chulalongkorn Memorial
\* Day, Sunday Oct 23, is held and so is its in lieu Monday; 2000, outside
\* the eras, would be the other side
C10_Witness ==
    /\ cls = "Thailand" /\ observed /\ arg = 2011
    /\ weekday(date(2011, OCT, 23)) = SU
    /\ Has(date(2011, OCT, 23), "Chulalongkorn Memorial Day")
    /\ Has(date(2011, OCT, 24), "Chulalongkorn Memorial Day (in lieu)")

\* C11: out-of-range years. A Thailand year <= 1940 populates to nothing:
\* the call makes no assignment and no date of the year is held. In a later
\* year for which the lunisolar calculator gives no date for a feast, no
\* entry and no in lieu entry of that feast is held, while the other rules
\* still make their entries.
C11_OutOfRange ==
    cls = "Thailand" =>
        /\ (arg \in years /\ arg <= 1940) => log = <<>>
        /\ \A y \in years :
               /\ y <= 1940 => HeldIn(y) = {}
               /\ y > 1940 =>
                   /\ makha_bucha_date(thls, y) = 0 =>
                          DatesNamed(y, {"Makha Bucha",
                                         "Makha Bucha (in lieu)"}) = {}
                   /\ visakha_bucha_date(thls, y) = 0 =>
                          DatesNamed(y, {"Visakha Bucha",
                                         "Visakha Bucha (in lieu)"}) = {}
                   /\ asarnha_bucha_date(thls, y) = 0 =>
                          DatesNamed(y, {"Asarnha Bucha",
                                         "Asarnha Bucha (in lieu)"}) = {}
                   /\ khao_phansa_date(thls, y) = 0 =>
                          DatesNamed(y, {"Buddhist Lent Day",
                                         "Buddhist Lent Day (in lieu)"}) = {}
                   /\ Has(date(y, JAN, 1), "New Year's Day")
                   /\ Has(date(y, APR, 6), "Chakri Memorial Day")
                   /\ Has(date(y, OCT, 23), "Chulalongkorn Memorial Day")
                   /\ Has(date(y, DEC, 10), "Constitution Day")
                   /\ Has(date(y, DEC, 31), "New Year's Eve")

\* 1940 and 1941 are populated: 1940 holds nothing, 1941 holds its entries
C11_Witness ==
    /\ cls = "Thailand" /\ {1940, 1941} \subseteq years
    /\ HeldIn(1940) = {}
    /\ Has(date(1941, JAN, 1), "New Year's Day")

Assignments(y) ==
    CASE cls = "USGS" -> USGS_populate(y)
      [] cls = "Hungary" -> HU_populate(observed, y)
      [] cls = "Thailand" -> TH_populate(observed, thls, y)

\* the entries of year y are those _populate(y) leaves on an empty mapping
SameAsFresh(y) ==
    LET fresh == ApplyWrites(<<>>, Assignments(y))
    IN  /\ HeldIn(y) = {d \in DOMAIN fresh : YearOf(d) = y}
        /\ \A d \in HeldIn(y) : hmap[d] = fresh[d]

DayOffWrites ==
    {log[i] : i \in {j \in DOMAIN log :
                        log[j].via = "_add_with_observed_day_off"}}

\* C14: Hungary's observed day-off helper. Every call writes the holiday's
\* own date under the plain label. When observed is on and the year is at
\* least the call's since (2014 for January 1, 2013 for December 26, 2010
\* otherwise), a Tuesday holiday also gets the Monday before it as
\* "<label> elotti pihenonap", unless the holiday is January 1 or December 26
\* (called with before off), and a Thursday holiday gets the Friday after it as
\* "<label> utani pihenonap". In every other case the call writes the
\* holiday's own date only. The entries stand in the finished mapping.
C14_DayOff ==
    (cls = "Hungary" /\ arg \in years) =>
        \A w \in DayOffWrites :
            LET r == w.raw
                plain == CHOOSE p \in DayOffWrites : p.raw = r /\ p.dt = r
                jan1 == r = date(arg, JAN, 1)
                dec26 == r = date(arg, DEC, 26)
                since == IF jan1 THEN 2014 ELSE IF dec26 THEN 2013 ELSE 2010
                on == observed /\ arg >= since
                extra == {x \in DayOffWrites : x.raw = r /\ x.dt # r}
            IN  /\ \E p \in DayOffWrites : p.raw = r /\ p.dt = r
                /\ Has(r, plain.name)
                /\ ~EndsWith(plain.name, " pihenonap")
                /\ IF on /\ weekday(r) = TU /\ ~jan1 /\ ~dec26
                   THEN /\ extra = {H(r - 1, plain.name \o " elotti pihenonap",
                                      "_add_with_observed_day_off", r)}
                        /\ Has(r - 1, plain.name \o " elotti pihenonap")
                        /\ weekday(r - 1) = MO
                   ELSE IF on /\ weekday(r) = TH
                   THEN /\ extra = {H(r + 1, plain.name \o " utani pihenonap",
                                      "_add_with_observed_day_off", r)}
                        /\ Has(r + 1, plain.name \o " utani pihenonap")
                        /\ weekday(r + 1) = FR
                   ELSE extra = {}

\* a year with a Tuesday holiday bridged backwards, a Thursday holiday bridged
\* forwards and a Tuesday January 1 left alone (2019)
C14_Witness ==
    /\ cls = "Hungary" /\ observed /\ arg \in years /\ arg >= 2014
    /\ weekday(date(arg, JAN, 1)) = TU
    /\ \E w \in DayOffWrites : w.dt = w.raw - 1 /\ Has(w.dt, w.name)
    /\ \E w \in DayOffWrites : w.dt = w.raw + 1 /\ Has(w.dt, w.name)

\* C15: the last day of the year in Hungary. December 31 of a populated year
\* is held exactly when observed is on, the year is at least 2014 and
\* December 31 is a Monday; it is then held as "Szilveszter", the later of the
\* two assignments to that date, and no date of the mapping is ever held as
\* "Ujev elotti pihenonap".
C15_Szilveszter ==
    cls = "Hungary" =>
        /\ \A y \in years :
               LET d == date(y, DEC, 31) IN
               /\ d \in Held <=>
                      (observed /\ y >= 2014 /\ weekday(d) = MO)
               /\ d \in Held => hmap[d] = "Szilveszter"
        /\ \A d \in Held : hmap[d] # "Ujev elotti pihenonap"

\* _populate(2018) assigned December 31 twice and "Szilveszter" stands
C15_Witness ==
    /\ cls = "Hungary" /\ observed /\ arg = 2018
    /\ \E i \in DOMAIN log :
           /\ log[i].dt = date(2018, DEC, 31)
           /\ log[i].name = "Ujev elotti pihenonap"
    /\ Has(date(2018, DEC, 31), "Szilveszter")

\* the assignments of the last helper call that went to another date than the
\* holiday's own
Shifted == {log[i] : i \in {j \in DOMAIN log : log[j].dt # log[j].raw}}

\* the class's helper, called on date d, would write d alone
NoShiftOn(d) ==
    CASE cls = "USGS" -> USGS_get_observed(d) = d
      [] cls = "Thailand" ->
             Len(TH_add_with_observed(observed, YearOf(d), d, "A")) = 1
      [] cls = "Hungary" ->
             \A since \in ShiftSince, before \in BOOLEAN,
                after \in BOOLEAN :
                 Len(HU_add_with_observed_day_off(observed, YearOf(d),
                         MAR, d - date(YearOf(d), MAR, 1) + 1, "A",
                         since, before, after)) = 1

\* C16: observed-shift idempotence. A call of a shift helper
\* (_add_with_observed_day_off, _add_with_observed, _set_observed_date) that
\* repeats the call before it, same raw date and same label, leaves the
\* mapping as that call left it; a call shifts to at most one date, and the
\* date it shifts to is one on which the helper itself would shift nothing.
C16_ShiftIdempotent ==
    /\ [](/\ Cardinality(Shifted) <= 1
          /\ \A w \in Shifted : NoShiftOn(w.dt))
    /\ [][again' => hmap' = hmap]_vars

\* a call that shifted was repeated, on a mapping holding another label too
C16_Witness ==
    /\ again
    /\ \E w \in Shifted : Has(w.dt, w.name)
    /\ \E d \in Held : \A i \in DOMAIN log : log[i].dt # d

\* the dates the assignments ws give one of the names ns by one of the
\* methods vias
NamedIn(ws, ns, vias) ==
    {ws[i].dt : i \in {j \in DOMAIN ws : ws[j].name \in ns /\ ws[j].via \in vias}}

\* the dates _populate(y) assigns under one of the names ns
AssignedAs(y, ns) ==
    NamedIn(Assignments(y), ns,
            {"_populate", "_add_with_observed", "_add_with_observed_day_off",
             "_set_observed_date", "special_holidays"})

\* C17: New Year's Eve (in lieu) in Thailand. A populated year Y holds a
\* "New Year's Eve (in lieu)" entry exactly when observed is on, Y is in
\* 1995..1997 or at least 2001, and December 31 of Y-1 is a Saturday (the
\* entry is January 3 of Y) or a Sunday (January 2 of Y). The entry is a
\* Tuesday of year Y, is not a date assigned as "New Year's Day" or
\* "New Year's Day (in lieu)", and no year of 1961..1973 holds one.
C17_NewYearsEveInLieu ==
    cls = "Thailand" =>
        \A y \in years :
            LET ds == DatesNamed(y, {"New Year's Eve (in lieu)"})
                prev == date(y - 1, DEC, 31)
                on == observed /\ (y \in 1995..1997 \/ y >= 2001)
            IN  /\ ds # {} <=> (on /\ weekday(prev) \in {SA, SU})
                /\ (on /\ weekday(prev) = SA) => ds = {date(y, JAN, 3)}
                /\ (on /\ weekday(prev) = SU) => ds = {date(y, JAN, 2)}
                /\ \A d \in ds : weekday(d) = TU /\ YearOf(d) = y
                /\ ds \cap AssignedAs(y, {"New Year's Day",
                                          "New Year's Day (in lieu)"}) = {}
                /\ y \in 1961..1973 => ds = {}

\* a year whose January 1 is a Sunday: Monday is in lieu of New Year's Day,
\* Tuesday in lieu of New Year's Eve
C17_Witness ==
    /\ cls = "Thailand" /\ observed
    /\ \E y \in years :
           /\ Has(date(y, JAN, 1), "New Year's Day")
           /\ Has(date(y, JAN, 2), "New Year's Day (in lieu)")
           /\ Has(date(y, JAN, 3), "New Year's Eve (in lieu)")

\* C18 as stated: every populated year of Thailand holds at most one date
\* named "Songkran Festival (in lieu)".
C18_SongkranInLieuUnique_AsStated ==
    cls = "Thailand" =>
        \A y \in years :
            Cardinality(DatesNamed(y, {"Songkran Festival (in lieu)"})) <= 1

\* C18: uniqueness of the Songkran in lieu day. Every populated year of
\* Thailand other than 2020 holds at most one date named
\* "Songkran Festival (in lieu)"; 2020 holds the three dates of its
\* special_holidays rows, July 27, September 4 and September 7, whether
\* observed is on or off.
C18_SongkranInLieuUnique ==
    cls = "Thailand" =>
        \A y \in years :
            LET ds == DatesNamed(y, {"Songkran Festival (in lieu)"}) IN
            IF y = 2020
            THEN ds = {date(2020, JUL, 27), date(2020, SEP, 4),
                       date(2020, SEP, 7)}
            ELSE Cardinality(ds) <= 1

\* 2020 with its three dates and 2019 with the one day in lieu of a Monday
\* April 15
C18_Witness ==
    /\ cls = "Thailand" /\ {2019, 2020} \subseteq years
    /\ Cardinality(DatesNamed(2020, {"Songkran Festival (in lieu)"})) = 3
    /\ DatesNamed(2019, {"Songkran Festival (in lieu)"})
           = {date(2019, APR, 16)}

\* the dates that the rules of _populate(y) itself, not the special_holidays
\* table and not a helper, assign under the name n
RuleAssigned(y, n) == NamedIn(Assignments(y), {n}, {"_populate"})

\* C19: placement of the Songkran in lieu day. With observed on and the year
\* in 1995..1997 or at least 2001, let L be the last Songkran day (April 14 up
\* to 1997, April 15 from 2001). The rule adds the Monday after L when L is a
\* Saturday or a Sunday, the Tuesday after L when L is a Monday, and nothing
\* when L is Tuesday..Friday; the date added is held under
\* "Songkran Festival (in lieu)", is not a Saturday or Sunday and is not one
\* of the Songkran days.
C19_SongkranInLieuPlacement ==
    (cls = "Thailand" /\ observed) =>
        \A y \in years :
            (y \in 1995..1997 \/ y >= 2001) =>
                LET L == IF y >= 2001 THEN date(y, APR, 15)
                         ELSE date(y, APR, 14)
                    added == RuleAssigned(y, "Songkran Festival (in lieu)")
                IN  /\ weekday(L) \in {SA, SU} =>
                           added = {WeekdayFrom(L + 1, MO)}
                    /\ weekday(L) = MO => added = {L + 1}
                    /\ weekday(L) \notin {SA, SU, MO} => added = {}
                    /\ \A d \in added :
                           /\ Has(d, "Songkran Festival (in lieu)")
                           /\ weekday(d) \notin {SA, SU}
                           /\ d \notin AssignedAs(y, {"Songkran Festival"})
                           /\ d \notin {L - 2, L - 1, L}

\* 2018..2019: April 15 a Sunday, then a Monday, each with its day in lieu
C19_Witness ==
    /\ cls = "Thailand" /\ observed /\ years = {2018, 2019}
    /\ Has(date(2018, APR, 16), "Songkran Festival (in lieu)")
    /\ Has(date(2019, APR, 16), "Songkran Festival (in lieu)")
    /\ Has(date(2019, APR, 15), "Songkran Festival")

\* C20: Asarnha Bucha / Buddhist Lent Day in lieu. When the calculator gives
\* an Asarnha Bucha date A, observed is on and the year is in 1961..1973,
\* 1995..1997 or at least 2001: A on a Friday adds A+3 as
\* "Buddhist Lent Day (in lieu)", A on a Saturday or Sunday adds A+2 as
\* "Asarnha Bucha (in lieu)", any other weekday adds neither. The date added
\* is held under that name, is a Monday or a Tuesday and is neither A nor
\* A+1.
C20_AsarnhaInLieu ==
    (cls = "Thailand" /\ observed) =>
        \A y \in years :
            LET A == asarnha_bucha_date(thls, y)
                lent == RuleAssigned(y, "Buddhist Lent Day (in lieu)")
                asarnha == RuleAssigned(y, "Asarnha Bucha (in lieu)")
            IN  (A # 0 /\ InLieuEra(y)) =>
                    /\ weekday(A) = FR =>
                           /\ lent = {A + 3} /\ asarnha = {}
                           /\ Has(A + 3, "Buddhist Lent Day (in lieu)")
                    /\ weekday(A) \in {SA, SU} =>
                           /\ asarnha = {A + 2} /\ lent = {}
                           /\ Has(A + 2, "Asarnha Bucha (in lieu)")
                    /\ weekday(A) \notin {FR, SA, SU} =>
                           lent = {} /\ asarnha = {}
                    /\ \A d \in lent \cup asarnha :
                           /\ weekday(d) \in {MO, TU}
                           /\ d \notin {A, A + 1}

\* a Friday Asarnha Bucha: Saturday is Buddhist Lent Day, Monday in lieu of it
C20_Witness ==
    /\ cls = "Thailand" /\ observed
    /\ \E y \in years :
           LET A == asarnha_bucha_date(thls, y) IN
           /\ A # 0 /\ weekday(A) = FR
           /\ Has(A, "Asarnha Bucha")
           /\ Has(A + 1, "Buddhist Lent Day")
           /\ Has(A + 3, "Buddhist Lent Day (in lieu)")

---------------------------------------------------------------------------
(* Frame *)

\* C21: per-year frame. Every assignment of _populate(Y) goes to a date of
\* year Y, in all three classes, so every date held belongs to a populated
\* year; a call of _populate(Y) leaves the entry of every date of another
\* year as it was and adds dates of year Y only. With C13 (a year's entries
\* are those of a fresh populate) the mapping is the same in whatever order
\* the years were populated.
C21_Frame ==
    /\ [](/\ arg \in years => \A i \in DOMAIN log : YearOf(log[i].dt) = arg
          /\ \A d \in Held : YearOf(d) \in years)
    /\ [][ /\ \A d \in DOMAIN hmap :
                  YearOf(d) # arg' => (d \in DOMAIN hmap' /\ hmap'[d] = hmap[d])
           /\ \A d \in DOMAIN hmap' :
                  d \notin DOMAIN hmap => YearOf(d) = arg' ]_vars

\* Hungary 2018 and 2019, 2019 populated last: January 1 2019 is a Tuesday,
\* and December 31 2018 is still the entry 2018 gave it
C21_Witness ==
    /\ cls = "Hungary" /\ observed
    /\ years = {2018, 2019} /\ arg = 2019
    /\ Has(date(2019, JAN, 1), "Ujev")
    /\ Has(date(2018, DEC, 31), "Szilveszter")

\* the positions of the last _populate's assignments made by
\* _set_observed_date
ObservedCalls == {i \in DOMAIN log : log[i].via = "_set_observed_date"}

\* C22: USGS weekday invariant. Every date the USGS mapping holds, regular,
\* observed or special, is a Monday..Friday. Each holiday handled by
\* _set_observed_date contributes exactly one date: its own date under its
\* name when that is a weekday, else the observed date alone, under
\* "<name> (Observed)", the holiday's own date not being held.
C22_Weekdays ==
    cls = "USGS" =>
        /\ \A d \in Held : weekday(d) \notin {SA, SU}
        /\ arg \in years =>
               \A i \in ObservedCalls :
                   LET w == log[i] IN
                   /\ \A j \in ObservedCalls : log[j].raw = w.raw => j = i
                   /\ Has(w.dt, w.name)
                   /\ (w.dt # w.raw) <=> EndsWith(w.name, " (Observed)")
                   /\ (w.dt # w.raw) <=> weekday(w.raw) \in {SA, SU}
                   /\ (w.dt # w.raw) => w.raw \notin Held

\* a year in which one holiday was moved off a weekend and another stayed
C22_Witness ==
    /\ cls = "USGS" /\ arg \in years
    /\ \E i \in ObservedCalls :
           /\ log[i].dt # log[i].raw
           /\ Has(log[i].dt, log[i].name)
           /\ log[i].raw \notin Held
    /\ \E i \in ObservedCalls : Has(log[i].raw, log[i].name)

\* C23: USGS isolation of holidays. No two dates of the USGS mapping are
\* consecutive days, within a year or across the turn of a year: for every
\* date d held, neither d - 1 nor d + 1 is held.
C23_Isolation ==
    cls = "USGS" =>
        \A d \in Held : (d - 1) \notin Held /\ (d + 1) \notin Held

\* 2016 and 2017: Christmas observed on Monday December 26, New Year's Day on
\* Monday January 2, the week between them free of entries
C23_Witness ==
    /\ cls = "USGS" /\ years = {2016, 2017}
    /\ Has(date(2016, DEC, 26), "Christmas Day (Observed)")
    /\ Has(date(2017, JAN, 2), "New Year's Day (Observed)")
    /\ \A d \in (date(2016, DEC, 27))..(date(2017, JAN, 1)) : d \notin Held

---------------------------------------------------------------------------
(* Thailand: rules on the same date *)

\* the date _add_with_observed gives the in lieu day of a weekend date d
InLieuOf(d) == IF weekday(d) = SA THEN d + 2 ELSE d + 1

\* C24: Thailand's rules on one date, the later assignment standing. In a
\* populated year from 1980 on, December 5 is held as "National Father's
\* Day" and no date is held as "HM King Bhumibol Adulyadej's Birthday" or its
\* in lieu name (in 1960..1979 December 5 is held under the birthday's name);
\* in a populated year from 1976 on, August 12 is held as "National Mother's
\* Day" and no date is held as "HM Queen Sirikit's Birthday", "HM Queen
\* Sirikit The Queen Mother's Birthday" or their in lieu names. Where the
\* helper adds an in lieu day for these dates it is held under the later
\* rule's "(in lieu)" name.
C24_SameDate ==
    cls = "Thailand" =>
        \A y \in years :
            LET dec5 == date(y, DEC, 5)
                aug12 == date(y, AUG, 12)
                kbb == "HM King Bhumibol Adulyadej's Birthday"
                qsb == "HM Queen Sirikit's Birthday"
                qsm == "HM Queen Sirikit The Queen Mother's Birthday"
                lieu == " (in lieu)"
                on == observed /\ InLieuEra(y)
            IN  /\ y >= 1980 =>
                       /\ Has(dec5, "National Father's Day")
                       /\ DatesNamed(y, {kbb, kbb \o lieu}) = {}
                       /\ (on /\ weekday(dec5) \in {SA, SU}) =>
                              Has(InLieuOf(dec5),
                                  "National Father's Day (in lieu)")
                /\ y \in 1960..1979 => Has(dec5, kbb)
                /\ y >= 1976 =>
                       /\ Has(aug12, "National Mother's Day")
                       /\ DatesNamed(y, {qsb, qsb \o lieu,
                                         qsm, qsm \o lieu}) = {}
                       /\ (on /\ weekday(aug12) \in {SA, SU}) =>
                              Has(InLieuOf(aug12),
                                  "National Mother's Day (in lieu)")

\* the last _populate assigned an in lieu day under the birthday's name and
\* the date is held under National Father's Day (in lieu)
C24_Witness ==
    /\ cls = "Thailand" /\ observed /\ arg \in years
    /\ \E i \in DOMAIN log :
           /\ log[i].name = "HM King Bhumibol Adulyadej's Birthday (in lieu)"
           /\ Has(log[i].dt, "National Father's Day (in lieu)")
    /\ Has(date(arg, DEC, 5), "National Father's Day")

===========================================================================
